---- MODULE Spec2Model ----
(***************************************************************************)
(* RAGVectorStore (langchain_parent/vectorstores/rag_vectorstore.py):      *)
(* hierarchical chunk indexing over a Vector Index and a Document Store.   *)
(* One action per public call (add_documents, delete, similarity_search);  *)
(* every call is atomic, as the class is single-threaded per call.         *)
(*                                                                         *)
(* Modelling conventions                                                   *)
(*  - an id is a tagged pair: <<"str", s>> a caller-supplied string,       *)
(*    <<"uuid4", n>> the n-th str(uuid.uuid4()), <<"vec", n>> the n-th id   *)
(*    generated by the Vector Index, <<"sha256", s>> the hex digest of s.   *)
(*  - a Python str built by ','.join is a sequence of tokens: ids and the  *)
(*    separator ",".                                                       *)
(*  - Optional[List] is [isNone, val].                                     *)
(*  - a Document is [content, metadata]; metadata is a function whose      *)
(*    DOMAIN is the set of keys present.                                   *)
(***************************************************************************)
EXTENDS Integers, Sequences, FiniteSets, TLC

\* ------------------------------------------------------------- bounds
MaxDocs == 2
MaxChunks == 2
MaxKids == 2
MaxDeletes == 1
MaxHits == 2

\* -------------------------------------------------- program constants
source_id_key == "source"
chunk_id_key == "_chunk_id"
child_ids_key == "_child_ids"

\* ------------------------------------------------------------ values
None == [isNone |-> TRUE, val |-> <<>>]
Some(s) == [isNone |-> FALSE, val |-> s]
\* `if ids is not None` in the place of `if ids`
Truthy_NotNone(o) == ~o.isNone

\* Python truthiness of an Optional[List]: `if ids:`
Truthy(o) == ~o.isNone /\ o.val # <<>>

Str(s) == <<"str", s>>
Uuid4(n) == <<"uuid4", n>>
VecId(n) == <<"vec", n>>
\* hashlib.sha256(str(doc_id).encode("utf-8")).hexdigest(); source ids are
\* strings, on which str() is the identity, and SHA-256 is collision free
\* on the few values used.
Sha256Hex(doc_id) == <<"sha256", doc_id>>

Range(s) == {s[i] : i \in DOMAIN s}
Min(a, b) == IF a <= b THEN a ELSE b
SeqsUpTo(S, lo, hi) == UNION {[1..n -> S] : n \in lo..hi}
Put(f, k, v) == [x \in DOMAIN f \cup {k} |-> IF x = k THEN v ELSE f[x]]
RECURSIVE SumTo(_, _)
SumTo(f, n) == IF n = 0 THEN 0 ELSE f[n] + SumTo(f, n - 1)

Document(content, metadata) == [content |-> content, metadata |-> metadata]
Has(d, k) == k \in DOMAIN d.metadata

\* the separator token of a joined string
Comma == <<",">>

\* ','.join(ids)
RECURSIVE Join(_)
Join(ids) ==
    IF ids = <<>> THEN <<>>
    ELSE IF Len(ids) = 1 THEN <<ids[1]>>
    ELSE <<ids[1], Comma>> \o Join(Tail(ids))

\* s.split(','): the pieces between separators; a piece with no token is
\* the empty string, so ''.split(',') = [''].
RECURSIVE SplitAcc(_, _, _)
SplitAcc(s, cur, acc) ==
    IF s = <<>> THEN Append(acc, cur)
    ELSE IF Head(s) = Comma THEN SplitAcc(Tail(s), Str(""), Append(acc, cur))
    ELSE SplitAcc(Tail(s), Head(s), acc)
Split(s) == SplitAcc(s, Str(""), <<>>)

\* ------------------------------------------------- Document Store (§6)
NoneValue == [kind |-> "None"]
DocValue(d) == [kind |-> "doc", doc |-> d]
IdsValue(l) == [kind |-> "ids", ids |-> l]

mget(store, keys) ==
    [i \in 1..Len(keys) |->
        IF keys[i] \in DOMAIN store THEN store[keys[i]] ELSE NoneValue]

\* key/value pairs written in order: the last pair of a key wins
WriteAll(store, ks, vals) ==
    LET n == Min(Len(ks), Len(vals))
        K == {ks[i] : i \in 1..n}
        pos(k) == CHOOSE i \in 1..n :
                      ks[i] = k /\ \A j \in 1..n : ks[j] = k => j <= i
    IN [k \in DOMAIN store \cup K |->
            IF k \in K THEN vals[pos(k)] ELSE store[k]]

mset(store, ks, vals) == WriteAll(store, ks, vals)

RemoveAll(store, keys) == [k \in DOMAIN store \ Range(keys) |-> store[k]]

\* an mdelete that removes nothing
mdelete_Nothing(store, keys) == store

mdelete(store, keys) == RemoveAll(store, keys)

\* --------------------------------------------------- Vector Index (§6)
\* add_documents(documents, ids=ids): stored under the given ids
vs_add_with_ids(index, docs, ids) == WriteAll(index, ids, docs)

\* add_documents(documents): the index generates the ids
vs_new_ids(nv, n) == [i \in 1..n |-> VecId(nv + i)]

\* a delete that empties the index whenever it is given an id
vs_delete_All(index, ids) == IF ids = <<>> THEN index ELSE <<>>

vs_delete(index, ids) == RemoveAll(index, ids)

VARIABLES
    parent_transformer,  \* BOOLEAN: a Parent Transformer is configured
    chunk_transformer,   \* BOOLEAN: a Chunk Transformer is configured
    vectorstore,         \* Vector Index: id -> Document
    docstore,            \* Document Store: id -> DocValue | IdsValue
    nu,                  \* uuid4 values drawn so far
    nv,                  \* ids generated by the Vector Index so far
    log,                 \* the calls that wrote to a store, in order
    last                 \* the last call: arguments and outcome

vars == <<parent_transformer, chunk_transformer, vectorstore, docstore,
          nu, nv, log, last>>

\* ------------------------------------------------- add_documents
AddFail(e, index, store, u, v, cids, kidids) ==
    [err |-> e, vs |-> index, ds |-> store, nu |-> u, nv |-> v,
     ret |-> <<>>, chunk_ids |-> cids, kid_ids |-> kidids]

SourceOf(d) == d.metadata[source_id_key]

\* map_doc_ids built by `map_doc_ids[doc.metadata[source_id_key]] = id`
MapDocIds(documents, idseq) ==
    WriteAll(<<>>, [i \in 1..Len(documents) |-> SourceOf(documents[i])], idseq)

\* Step 1, id derivation.  In the auto-id branch the hashing loop is nested
\* in the checking loop: the first iteration checks documents[1] only and
\* then reads the source id of every document.
DeriveIds(documents, ids) ==
    IF parent_transformer THEN
        IF Truthy(ids) THEN
            IF Len(documents) # Len(ids.val)
            THEN [err |-> "ValueError: uneven", ids |-> ids,
                  chunk_ids |-> None, map |-> <<>>]
            ELSE IF \E i \in 1..Len(documents) : ~Has(documents[i], source_id_key)
            THEN [err |-> "KeyError", ids |-> ids,
                  chunk_ids |-> None, map |-> <<>>]
            ELSE [err |-> "", ids |-> ids, chunk_ids |-> None,
                  map |-> MapDocIds(documents, ids.val)]
        ELSE
            IF documents = <<>>
            THEN [err |-> "", ids |-> ids, chunk_ids |-> None, map |-> <<>>]
            ELSE IF ~Has(documents[1], source_id_key)
            THEN [err |-> "ValueError: uniq", ids |-> ids,
                  chunk_ids |-> None, map |-> <<>>]
            ELSE IF \E i \in 1..Len(documents) : ~Has(documents[i], source_id_key)
            THEN [err |-> "KeyError", ids |-> ids,
                  chunk_ids |-> None, map |-> <<>>]
            ELSE LET h == [i \in 1..Len(documents) |->
                              Sha256Hex(SourceOf(documents[i]))]
                 IN [err |-> "", ids |-> Some(h), chunk_ids |-> None,
                     map |-> MapDocIds(documents, h)]
    ELSE [err |-> "", ids |-> None, chunk_ids |-> ids, map |-> <<>>]

\* Step 3, chunk id assignment:
\* chunk.metadata.get(chunk_id_key, str(uuid.uuid4())) for each chunk
NewBefore(chunks, j) ==
    Cardinality({i \in 1..j : ~Has(chunks[i], chunk_id_key)})

AssignChunkIds(chunks, u) ==
    [j \in 1..Len(chunks) |->
        IF Has(chunks[j], chunk_id_key)
        THEN chunks[j].metadata[chunk_id_key]
        ELSE Uuid4(u + NewBefore(chunks, j))]

\* chunk_ids_for_doc built by prepending instead of appending
RECURSIVE ChunksOf_Prepend(_, _, _)
ChunksOf_Prepend(cids, pids, p) ==
    IF cids = <<>> \/ pids = <<>> THEN <<>>
    ELSE ChunksOf_Prepend(Tail(cids), Tail(pids), p)
         \o (IF Head(pids) = p THEN <<Head(cids)>> ELSE <<>>)

\* Step 4, parent association: chunk_ids_for_doc
RECURSIVE ChunksOf(_, _, _)
ChunksOf(cids, pids, p) ==
    IF cids = <<>> \/ pids = <<>> THEN <<>>
    ELSE (IF Head(pids) = p THEN <<Head(cids)>> ELSE <<>>)
         \o ChunksOf(Tail(cids), Tail(pids), p)

ChunkIdsForDoc(cids, chunks, map) ==
    LET pids == [j \in 1..Len(chunks) |-> map[SourceOf(chunks[j])]]
    IN [p \in Range(pids) |-> ChunksOf(cids, pids, p)]

\* Step 5 with a Chunk Transformer: each child is stamped with the owning
\* chunk id and added to the Vector Index under a generated id.
Child(chunk, cid, m) ==
    Document(<<"child", m, chunk.content>>, Put(chunk.metadata, chunk_id_key, cid))

KidIds(kids, v, j) == vs_new_ids(v + SumTo(kids, j - 1), kids[j])

IndexChildren(index, cids, chunks, kids, v, n) ==
    LET W == {<<j, m>> \in (1..n) \X (1..MaxKids) : m <= kids[j]}
        at(id) == CHOOSE w \in W : KidIds(kids, v, w[1])[w[2]] = id
        new == {KidIds(kids, v, w[1])[w[2]] : w \in W}
    IN [id \in DOMAIN index \cup new |->
           IF id \in new
           THEN Child(chunks[at(id)[1]], cids[at(id)[1]], at(id)[2])
           ELSE index[id]]

\* a chunk record that keeps the id of the last child only
ChunkRecord_LastChild(chunk, kidids) ==
    Document(chunk.content,
             Put(chunk.metadata, child_ids_key,
                 IF kidids = <<>> THEN <<>> ELSE <<kidids[Len(kidids)]>>))

\* chunk_doc.metadata[child_ids_key] = ','.join(transformed_persistance_ids)
ChunkRecord(chunk, kidids) ==
    Document(chunk.content, Put(chunk.metadata, child_ids_key, Join(kidids)))

\* Step 6, parent mapping persistence, after the indexing of step 5 left
\* the stores as (index, store).
SaveParents(index, store, u, v, ids, documents, for_doc, cids, kidids) ==
    IF ids.isNone
    THEN AddFail("TypeError", index, store, u, v, cids, kidids)
    ELSE LET n == Min(Len(ids.val), Len(documents)) IN
         IF \E i \in 1..n : ids.val[i] \notin DOMAIN for_doc
         THEN AddFail("KeyError", index, store, u, v, cids, kidids)
         ELSE [err |-> "", vs |-> index,
               ds |-> mset(store, SubSeq(ids.val, 1, n),
                           [i \in 1..n |-> IdsValue(for_doc[ids.val[i]])]),
               nu |-> u, nv |-> v, ret |-> ids.val,
               chunk_ids |-> cids, kid_ids |-> kidids]

\* Steps 5 and 6 once the chunk ids are fixed.  `strict` is the Vector
\* Index's answer to add_documents(documents, ids) with uneven lengths:
\* it raises, or it pairs them up as far as they go.
IndexAndSave(index, store, u, v, ids, documents, chunks, cids, map, kids, strict) ==
    LET n == Min(Len(cids), Len(chunks))
        for_doc == IF parent_transformer
                   THEN ChunkIdsForDoc(cids, chunks, map) ELSE <<>>
        kidids == IF chunk_transformer
                  THEN [j \in 1..n |-> KidIds(kids, v, j)] ELSE <<>>
        v2 == IF chunk_transformer THEN v + SumTo(kids, n) ELSE v
        index2 == IF chunk_transformer
                  THEN IndexChildren(index, cids, chunks, kids, v, n)
                  ELSE vs_add_with_ids(index, chunks, cids)
        store2 == IF chunk_transformer
                  THEN mset(store, SubSeq(cids, 1, n),
                            [j \in 1..n |->
                                DocValue(ChunkRecord(chunks[j], kidids[j]))])
                  ELSE store
    IN IF ~chunk_transformer /\ Len(cids) # Len(chunks) /\ strict
       THEN AddFail("VectorStoreError", index, store, u, v, cids, <<>>)
       ELSE IF parent_transformer
       THEN SaveParents(index2, store2, u, v2, ids, documents, for_doc,
                        cids, kidids)
       ELSE [err |-> "", vs |-> index2, ds |-> store2, nu |-> u, nv |-> v2,
             ret |-> cids, chunk_ids |-> cids, kid_ids |-> kidids]

\* add_documents(documents, ids=ids).  `pout` is what the Parent
\* Transformer returns for `documents`, kids[j] the number of children the
\* Chunk Transformer returns for the j-th chunk.
add_documents(index, store, u, v, documents, ids, pout, kids, strict) ==
    LET d == DeriveIds(documents, ids)
        chunks == IF parent_transformer THEN pout ELSE documents
        fresh == d.chunk_ids.isNone
        cids == IF fresh THEN AssignChunkIds(chunks, u) ELSE d.chunk_ids.val
        u2 == IF fresh THEN u + NewBefore(chunks, Len(chunks)) ELSE u
    IN IF d.err # ""
       THEN AddFail(d.err, index, store, u, v, <<>>, <<>>)
       ELSE IndexAndSave(index, store, u2, v, d.ids, documents, chunks, cids,
                         d.map, kids, strict)

\* add_documents in which the Chunk Transformer, the Vector Index or the
\* Document Store raises after the children of the first m chunks were
\* indexed: the loop is left, and mset is not reached.
add_documents_interrupted(index, store, u, v, documents, ids, pout, kids, m) ==
    LET d == DeriveIds(documents, ids)
        chunks == IF parent_transformer THEN pout ELSE documents
        fresh == d.chunk_ids.isNone
        cids == IF fresh THEN AssignChunkIds(chunks, u) ELSE d.chunk_ids.val
        u2 == IF fresh THEN u + NewBefore(chunks, Len(chunks)) ELSE u
    IN IF d.err # ""
       THEN AddFail(d.err, index, store, u, v, <<>>, <<>>)
       ELSE AddFail("Interrupted",
                    IndexChildren(index, cids, chunks, kids, v, m), store,
                    u2, v + SumTo(kids, m), cids,
                    [j \in 1..m |-> KidIds(kids, v, j)])

\* ------------------------------------------------------------ delete
\* `c` lists the id sets passed to the Vector Index's delete, `g` the key
\* lists passed to the Document Store's mget
DelResult(e, index, store, r, c, g) ==
    [err |-> e, vs |-> index, ds |-> store, ret |-> r, calls |-> c,
     mgets |-> g]

RECURSIVE Flatten(_)
Flatten(lists) ==
    IF lists = <<>> THEN <<>> ELSE Head(lists).ids \o Flatten(Tail(lists))

\* transformed_ids taken from the first chunk record only
TransformedIds_FirstOnly(chunk_docs) ==
    IF chunk_docs = <<>> \/ chunk_docs[1].kind # "doc" THEN {}
    ELSE Range(Split(chunk_docs[1].doc.metadata[child_ids_key]))

\* transformed_ids: the union of chunk_doc.metadata[child_ids_key].split(',')
\* over the chunk records found
TransformedIds(chunk_docs) ==
    UNION {Range(Split(chunk_docs[i].doc.metadata[child_ids_key])) :
              i \in {j \in 1..Len(chunk_docs) : chunk_docs[j].kind = "doc"}}

\* list(transformed_ids): some order of the set
RECURSIVE SetToSeq(_)
SetToSeq(S) ==
    IF S = {} THEN <<>>
    ELSE LET x == CHOOSE y \in S : TRUE IN <<x>> \o SetToSeq(S \ {x})

\* Steps 2 and 3 on the resolved chunk ids.
DeleteChunks(index, store, ids, chunk_by_doc_ids) ==
    LET chunk_docs == mget(store, chunk_by_doc_ids)
        store2 == IF chunk_transformer
                  THEN mdelete(store, chunk_by_doc_ids) ELSE store
        transformed_ids == IF chunk_transformer
                           THEN TransformedIds(chunk_docs) ELSE {}
        g == IF chunk_transformer THEN <<chunk_by_doc_ids>> ELSE <<>>
    IN IF chunk_transformer
          /\ \E i \in 1..Len(chunk_docs) :
                chunk_docs[i].kind = "ids" /\ chunk_docs[i].ids # <<>>
       THEN DelResult("AttributeError", index, store2, "", <<>>, g)
       ELSE IF transformed_ids # {}
       THEN DelResult("", vs_delete(index, SetToSeq(transformed_ids)), store2,
                      "None", <<transformed_ids>>, g)
       ELSE IF parent_transformer
       THEN DelResult("", vs_delete(index, chunk_by_doc_ids), store2,
                      "VectorIndexResult", <<Range(chunk_by_doc_ids)>>, g)
       ELSE IF chunk_transformer
       THEN DelResult("", index, store2, "False", <<>>, g)
       ELSE DelResult("", vs_delete(index, ids.val), store2,
                      "VectorIndexResult", <<Range(ids.val)>>, g)

\* delete(ids=ids); in the modes without a Parent Transformer ids is a list
delete(index, store, ids) ==
    IF parent_transformer THEN
        IF ~Truthy(ids)
        THEN DelResult("ValueError: ids must be set", index, store, "", <<>>,
                       <<>>)
        ELSE LET lists == mget(store, ids.val) IN
             IF \E i \in 1..Len(lists) : lists[i].kind # "ids"
             THEN DelResult("TypeError", index, store, "", <<>>, <<ids.val>>)
             ELSE [DeleteChunks(index, store, ids, Flatten(lists))
                      EXCEPT !.mgets = <<ids.val>> \o @]
    ELSE DeleteChunks(index, store, ids, ids.val)

\* -------------------------------------------- _get_trunk_from_sub_docs
\* the chunk ids of the hits with their repetitions kept
Dedup_Keep(xs, acc) == acc \o xs

RECURSIVE Dedup(_, _)
Dedup(xs, acc) ==
    IF xs = <<>> THEN acc
    ELSE Dedup(Tail(xs),
               IF Head(xs) \in Range(acc) THEN acc ELSE Append(acc, Head(xs)))

NotNone(v) == v.kind # "None"

get_trunk_from_sub_docs(store, sub_docs) ==
    IF \E i \in 1..Len(sub_docs) : ~Has(sub_docs[i], chunk_id_key)
    THEN [err |-> "KeyError", docs |-> <<>>]
    ELSE LET ids == Dedup([i \in 1..Len(sub_docs) |->
                              sub_docs[i].metadata[chunk_id_key]], <<>>)
             docs == mget(store, ids)
         IN [err |-> "", docs |-> SelectSeq(docs, NotNone)]

\* similarity_search(query): the Vector Index answers with `hits`
similarity_search(index, store, hits) == get_trunk_from_sub_docs(store, hits)

\* ------------------------------------------------------------ inputs
Sources == {"a", "b"}
ParentIds == {Str("P"), Str("Q")}
ChunkIds == {Str("X")}
EmptyMetadata == <<>>

RECURSIVE Total(_, _)
Total(calls, field) ==
    IF calls = <<>> THEN 0
    ELSE Len(Head(calls)[field]) + Total(Tail(calls), field)

\* The metadata add_documents reads from its input documents: the source
\* id with a Parent Transformer, the chunk id without.
InputMetadata ==
    {EmptyMetadata} \cup
    (IF parent_transformer
     THEN {(source_id_key :> s) : s \in Sources}
     ELSE {(chunk_id_key :> c) : c \in ChunkIds})

DocumentsOf(mds) == [i \in 1..Len(mds) |-> Document(<<"doc", i>>, mds[i])]

InputDocuments ==
    {DocumentsOf(m) :
        m \in SeqsUpTo(InputMetadata, 0, MaxDocs - Total(log, "documents"))}

IdArgs ==
    {None} \cup
    {Some(s) : s \in SeqsUpTo(IF parent_transformer THEN ParentIds ELSE ChunkIds,
                               0, MaxDocs)}

\* What a Parent Transformer may return for `documents`: chunks that each
\* carry the source id of one of the documents and possibly a chunk id of
\* their own.
ChunkMetadata(documents) ==
    LET S == {SourceOf(documents[i]) : i \in 1..Len(documents)}
    IN {(source_id_key :> s) : s \in S}
       \cup {(source_id_key :> s) @@ (chunk_id_key :> c) : s \in S, c \in ChunkIds}

ParentOutputs(documents) ==
    IF parent_transformer
    THEN {[j \in 1..Len(m) |-> Document(<<"chunk", j>>, m[j])] :
             m \in SeqsUpTo(ChunkMetadata(documents), 0,
                            MaxChunks - Total(log, "chunk_ids"))}
    ELSE {<<>>}

KidCounts(n) ==
    IF chunk_transformer THEN [1..n -> 0..MaxKids] ELSE {[j \in 1..n |-> 0]}

\* What the Vector Index may answer to a query: a ranking of up to MaxHits
\* of its items.
Hits ==
    {[i \in 1..Len(h) |-> vectorstore[h[i]]] :
        h \in {g \in SeqsUpTo(DOMAIN vectorstore, 1, MaxHits) :
                   \A i, j \in 1..Len(g) : i # j => g[i] # g[j]}}

\* The ids a caller may pass to delete: ids of units in the stores and an
\* id that was never added.
DeleteIds ==
    IF parent_transformer
    THEN {k \in DOMAIN docstore : docstore[k].kind = "ids"} \cup ParentIds
    ELSE (IF chunk_transformer THEN DOMAIN docstore ELSE DOMAIN vectorstore)
         \cup ChunkIds

DeleteArgs ==
    (IF parent_transformer THEN {None} ELSE {})
    \cup {Some(s) : s \in SeqsUpTo(DeleteIds, 0, MaxDocs)}

\* ----------------------------------------------------------- the calls
Call(op, documents, ids, hits, r, wrote) ==
    [op |-> op, documents |-> documents, ids |-> ids, hits |-> hits,
     err |-> r.err, ret |-> r.ret, chunk_ids |-> r.chunk_ids,
     chunks |-> r.chunks, kid_ids |-> r.kid_ids, calls |-> r.calls,
     mgets |-> r.mgets, docs |-> r.docs, wrote |-> wrote]

NoCall ==
    [op |-> "init", documents |-> <<>>, ids |-> None, hits |-> <<>>,
     err |-> "", ret |-> <<>>, chunk_ids |-> <<>>, chunks |-> <<>>,
     kid_ids |-> <<>>, calls |-> <<>>, mgets |-> <<>>, docs |-> <<>>,
     wrote |-> FALSE]

Count(op) == Cardinality({i \in 1..Len(log) : log[i].op = op})

\* A call that writes nothing leaves every variable but `last` as it was:
\* the calls after it are the calls of the state before it, and are
\* explored from there.
Settled == last.op = "init" \/ last.wrote

Init ==
    /\ parent_transformer \in BOOLEAN
    /\ chunk_transformer \in BOOLEAN
    /\ vectorstore = <<>>
    /\ docstore = <<>>
    /\ nu = 0
    /\ nv = 0
    /\ log = <<>>
    /\ last = NoCall

Finish(op, documents, ids, hits, r) ==
    LET wrote == r.vs # vectorstore \/ r.ds # docstore
        call == Call(op, documents, ids, hits, r, wrote)
    IN /\ vectorstore' = r.vs
       /\ docstore' = r.ds
       /\ last' = call
       /\ log' = IF wrote THEN Append(log, call) ELSE log
       /\ UNCHANGED <<parent_transformer, chunk_transformer>>

AddWith(documents, ids, pout, kids, strict) ==
    LET r == add_documents(vectorstore, docstore, nu, nv, documents, ids,
                           pout, kids, strict)
    IN /\ Finish("add", documents, ids, <<>>,
                 r @@ [calls |-> <<>>, docs |-> <<>>, mgets |-> <<>>,
                       chunks |-> IF parent_transformer THEN pout
                                  ELSE documents])
       /\ nu' = r.nu
       /\ nv' = r.nv

Add ==
    /\ Settled
    /\ \E documents \in InputDocuments, ids \in IdArgs :
          IF DeriveIds(documents, ids).err # ""
          THEN AddWith(documents, ids, <<>>, <<>>, FALSE)
          ELSE \E pout \in ParentOutputs(documents) :
                 LET n == IF parent_transformer THEN Len(pout)
                          ELSE IF ids.isNone THEN Len(documents)
                          ELSE Min(Len(ids.val), Len(documents))
                 IN \E kids \in KidCounts(n) :
                      \E strict \in IF ~chunk_transformer /\ ~parent_transformer
                                       /\ ~ids.isNone
                                       /\ Len(ids.val) # Len(documents)
                                    THEN BOOLEAN ELSE {FALSE} :
                         AddWith(documents, ids, pout, kids, strict)

\* An add that an exception of a collaborator interrupts in the loop over
\* the chunks or at the batch write of the chunk records.
AddInterrupted ==
    /\ Settled
    /\ chunk_transformer
    /\ \E documents \in InputDocuments, ids \in IdArgs :
          /\ DeriveIds(documents, ids).err = ""
          /\ \E pout \in ParentOutputs(documents) :
                LET n == IF parent_transformer THEN Len(pout)
                         ELSE IF ids.isNone THEN Len(documents)
                         ELSE Min(Len(ids.val), Len(documents))
                IN \E m \in 0..n :
                     \E kids \in [1..m -> 0..MaxKids] :
                        LET r == add_documents_interrupted(
                                    vectorstore, docstore, nu, nv, documents,
                                    ids, pout, kids, m)
                        IN /\ Finish("add", documents, ids, <<>>,
                                     r @@ [calls |-> <<>>, docs |-> <<>>, mgets |-> <<>>,
                                           chunks |-> IF parent_transformer
                                                      THEN pout ELSE documents])
                           /\ nu' = r.nu
                           /\ nv' = r.nv

Delete ==
    /\ Settled
    /\ Count("delete") < MaxDeletes
    /\ \E ids \in DeleteArgs :
          LET r == delete(vectorstore, docstore, ids)
          IN Finish("delete", <<>>, ids, <<>>,
                    r @@ [chunk_ids |-> <<>>, chunks |-> <<>>,
                          kid_ids |-> <<>>, docs |-> <<>>])
    /\ UNCHANGED <<nu, nv>>

Search ==
    /\ Settled
    /\ \E hits \in Hits :
          LET r == similarity_search(vectorstore, docstore, hits)
          IN Finish("search", <<>>, None, hits,
                    r @@ [vs |-> vectorstore, ds |-> docstore, ret |-> <<>>,
                          chunk_ids |-> <<>>, chunks |-> <<>>,
                          kid_ids |-> <<>>, calls |-> <<>>,
                          mgets |-> <<>>])
    /\ UNCHANGED <<nu, nv>>

Next == Add \/ AddInterrupted \/ Delete \/ Search

Spec == Init /\ [][Next]_vars

\* ------------------------------------- the resolver as a pure function
\* _get_trunk_from_sub_docs applied to any hits over any Document Store of
\* chunk records.
ResolveIds == {Str("X"), Str("Y"), Uuid4(1)}

ResolveRecord(c) ==
    DocValue(Document(<<"chunk", c>>, (child_ids_key :> Join(<<VecId(1)>>))))

ResolveStores ==
    {[c \in K |-> ResolveRecord(c)] : K \in SUBSET ResolveIds}

ResolveHits ==
    {Document(<<"child">>, (chunk_id_key :> c)) : c \in ResolveIds}
    \cup {Document(<<"child">>, EmptyMetadata)}

InitResolve ==
    /\ parent_transformer = FALSE
    /\ chunk_transformer = TRUE
    /\ vectorstore = <<>>
    /\ docstore \in ResolveStores
    /\ nu = 0
    /\ nv = 0
    /\ log = <<>>
    /\ last = NoCall

Resolve ==
    /\ last.op = "init"
    /\ \E hits \in SeqsUpTo(ResolveHits, 0, MaxHits + 1) :
          LET r == get_trunk_from_sub_docs(docstore, hits)
          IN last' = Call("resolve", <<>>, None, hits,
                          r @@ [ret |-> <<>>, chunk_ids |-> <<>>,
                                chunks |-> <<>>, kid_ids |-> <<>>,
                                calls |-> <<>>, mgets |-> <<>>], FALSE)
    /\ UNCHANGED <<parent_transformer, chunk_transformer, vectorstore,
                   docstore, nu, nv, log>>

SpecResolve == InitResolve /\ [][Resolve]_vars

\* ------------------------------ one add and one delete run concurrently
\* With a Chunk Transformer only, add_documents(documents, ids) and
\* delete(ids) are called by two threads on the same stores.  A step is one
\* round-trip to a store; `last` holds the position and the locals of the
\* two calls, `log` the round-trips made so far, in order.
ConcIds == {Str("X"), Str("Y")}

\* The stores before the two calls: empty, or as a completed add of one
\* document under the chunk id X left them.
ConcPriorAdds == {<<>>} \cup {<<k>> : k \in 0..MaxKids}

ConcAddIds ==
    {i \in SeqsUpTo(ConcIds, 1, MaxDocs) : Str("X") \in Range(i)}

ConcDeleteIds == {<<Str("X")>>, <<Str("X"), Str("Y")>>}

InitConc ==
    /\ parent_transformer = FALSE
    /\ chunk_transformer = TRUE
    /\ nu = 0
    /\ log = <<>>
    /\ \E prior \in ConcPriorAdds :
          LET r == add_documents(<<>>, <<>>, 0, 0,
                                 <<Document(<<"doc", 0>>, EmptyMetadata)>>,
                                 Some(<<Str("X")>>), <<>>, prior, FALSE)
          IN IF prior = <<>>
             THEN vectorstore = <<>> /\ docstore = <<>> /\ nv = 0
             ELSE vectorstore = r.vs /\ docstore = r.ds /\ nv = r.nv
    /\ \E ids \in ConcAddIds, dids \in ConcDeleteIds :
          last = [op |-> "conc",
                  add |-> [pc |-> "index", j |-> 1,
                           documents |-> DocumentsOf([i \in 1..Len(ids) |->
                                                        EmptyMetadata]),
                           ids |-> ids, kid_ids |-> <<>>, ret |-> <<>>],
                  del |-> [pc |-> "mget", ids |-> dids, chunk_docs |-> <<>>,
                           ret |-> ""]]

\* add, l.219-229: the children of the j-th chunk are stamped and written
\* to the Vector Index
AddIndexChunk ==
    /\ last.op = "conc"
    /\ last.add.pc = "index"
    /\ \E k \in 0..MaxKids :
          LET j == last.add.j IN
          /\ vectorstore' = IndexChildren(vectorstore, <<last.add.ids[j]>>,
                                          <<last.add.documents[j]>>, <<k>>,
                                          nv, 1)
          /\ nv' = nv + k
          /\ last' = [last EXCEPT
                         !.add.kid_ids = Append(@, KidIds(<<k>>, nv, 1)),
                         !.add.j = j + 1,
                         !.add.pc = IF j = Len(last.add.ids)
                                    THEN "mset" ELSE "index"]
    /\ log' = Append(log, "add.index")
    /\ UNCHANGED <<parent_transformer, chunk_transformer, docstore, nu>>

\* add, l.240: the chunk records are written in one batch
AddSaveChunks ==
    /\ last.op = "conc"
    /\ last.add.pc = "mset"
    /\ docstore' = mset(docstore, last.add.ids,
                        [j \in 1..Len(last.add.ids) |->
                            DocValue(ChunkRecord(last.add.documents[j],
                                                 last.add.kid_ids[j]))])
    /\ last' = [last EXCEPT !.add.pc = "done", !.add.ret = last.add.ids]
    /\ log' = Append(log, "add.mset")
    /\ UNCHANGED <<parent_transformer, chunk_transformer, vectorstore, nu, nv>>

\* delete, l.275: the chunk records are read
DeleteRead ==
    /\ last.op = "conc"
    /\ last.del.pc = "mget"
    /\ last' = [last EXCEPT !.del.pc = "mdelete",
                            !.del.chunk_docs = mget(docstore, last.del.ids)]
    /\ log' = Append(log, "delete.mget")
    /\ UNCHANGED <<parent_transformer, chunk_transformer, vectorstore,
                   docstore, nu, nv>>

\* delete, l.276-281 and l.285-286: the chunk records are removed; with no
\* child id found in the records read, the call returns False
DeleteRemoveChunks ==
    /\ last.op = "conc"
    /\ last.del.pc = "mdelete"
    /\ docstore' = mdelete(docstore, last.del.ids)
    /\ last' = IF TransformedIds(last.del.chunk_docs) = {}
               THEN [last EXCEPT !.del.pc = "done", !.del.ret = "False"]
               ELSE [last EXCEPT !.del.pc = "vs_delete"]
    /\ log' = Append(log, "delete.mdelete")
    /\ UNCHANGED <<parent_transformer, chunk_transformer, vectorstore, nu, nv>>

\* delete, l.282: the children listed in the records read are removed from
\* the Vector Index
DeleteRemoveChildren ==
    /\ last.op = "conc"
    /\ last.del.pc = "vs_delete"
    /\ vectorstore' = vs_delete(vectorstore,
                                SetToSeq(TransformedIds(last.del.chunk_docs)))
    /\ last' = [last EXCEPT !.del.pc = "done", !.del.ret = "None"]
    /\ log' = Append(log, "delete.vs_delete")
    /\ UNCHANGED <<parent_transformer, chunk_transformer, docstore, nu, nv>>

NextConc ==
    \/ AddIndexChunk
    \/ AddSaveChunks
    \/ DeleteRead
    \/ DeleteRemoveChunks
    \/ DeleteRemoveChildren

SpecConc == InitConc /\ [][NextConc]_vars

\* ============================================================ properties
\* The writing calls that precede the last call.
Before == IF last.wrote THEN SubSeq(log, 1, Len(log) - 1) ELSE log

Distinct(s) == \A i, j \in 1..Len(s) : i # j => s[i] # s[j]

\* the Vector Index ids of the children an add wrote
KidsOf(call) == UNION {Range(call.kid_ids[j]) : j \in 1..Len(call.kid_ids)}

\* A completed delete of the ids returned by a completed add, which was
\* the first call to write to the stores; both transformers are configured.
DeleteAfterFirstAdd ==
    /\ parent_transformer /\ chunk_transformer
    /\ last.op = "delete" /\ last.err = ""
    /\ Len(Before) = 1
    /\ Before[1].op = "add" /\ Before[1].err = ""
    /\ last.ids = Some(Before[1].ret)

Cascaded(call) ==
    /\ KidsOf(call) \cap DOMAIN vectorstore = {}
    /\ Range(call.chunk_ids) \cap DOMAIN docstore = {}

\* C1 as stated: with both transformers, from empty stores, after add and
\* delete of the returned parent ids the Vector Index holds none of the
\* children and the Document Store none of the chunk records of that add.
C1_CascadeAsStated == DeleteAfterFirstAdd => Cascaded(Before[1])

\* C1 amended: the same, provided the chunks of that add were given
\* pairwise distinct chunk ids.
C1_Cascade ==
    (DeleteAfterFirstAdd /\ Distinct(Before[1].chunk_ids))
        => Cascaded(Before[1])

C1_Witness ==
    /\ DeleteAfterFirstAdd
    /\ Distinct(Before[1].chunk_ids)
    /\ Len(Before[1].chunk_ids) = 2
    /\ Cardinality(KidsOf(Before[1])) = 4
    /\ Cascaded(Before[1])

\* C2: with a Parent Transformer, after a completed delete(ids) the
\* Document Store holds no entry under any of the deleted parent ids.
C2_ParentMappingRemoved ==
    (parent_transformer /\ last.op = "delete" /\ last.err = "")
        => Range(last.ids.val) \cap DOMAIN docstore = {}

\* the call that left the stores as the last call found them
Prior == Before[Len(Before)]

\* the (chunk id, chunk) pairs an add indexed
Pairs(call) == 1..Min(Len(call.chunk_ids), Len(call.chunks))

\* C3: with no transformer, add returns the chunk ids (the supplied ids,
\* else those of the metadata or generated), and a search whose hits are
\* chunks stored by that add completes and returns exactly those chunks.
C3_FlatRoundTrip ==
    (~parent_transformer /\ ~chunk_transformer) =>
        /\ (last.op = "add" /\ last.err = "")
              => /\ last.ret = last.chunk_ids
                 /\ ~last.ids.isNone => last.ret = last.ids.val
        /\ (/\ last.op = "search"
            /\ Before # <<>>
            /\ Prior.op = "add" /\ Prior.err = ""
            /\ \A i \in 1..Len(last.hits) : \E j \in Pairs(Prior) :
                  /\ last.hits[i] = Prior.chunks[j]
                  /\ vectorstore[Prior.chunk_ids[j]] = Prior.chunks[j])
              => /\ last.err = ""
                 /\ Range(last.docs) = {DocValue(h) : h \in Range(last.hits)}
                 /\ Len(last.docs) = Cardinality(Range(last.hits))

AllCarry(documents, key) ==
    \A i \in 1..Len(documents) : Has(documents[i], key)

\* C4: with a Parent Transformer and as many non-empty ids as documents,
\* all carrying the source id, add completes and returns the supplied ids
\* (when no collaborator raises).
C4_SuppliedIdsReturned ==
    (/\ parent_transformer
     /\ last.op = "add"
     /\ last.err # "Interrupted"
     /\ Truthy(last.ids)
     /\ Len(last.ids.val) = Len(last.documents)
     /\ AllCarry(last.documents, source_id_key))
        => (last.err = "" /\ last.ret = last.ids.val)

\* C5: with a Parent Transformer and no ids, an add of documents of which
\* one lacks the source id fails with the ValueError and writes nothing.
C5_MissingSourceRejected ==
    (/\ parent_transformer
     /\ last.op = "add"
     /\ last.ids.isNone
     /\ ~AllCarry(last.documents, source_id_key))
        => (last.err = "ValueError: uniq" /\ ~last.wrote)

\* C6: an add with supplied ids whose number differs from that of the
\* documents fails and writes nothing, in every mode (stated for the adds
\* in which no collaborator raises).
C6_UnevenIdsRejected ==
    (/\ last.op = "add"
     /\ last.err # "Interrupted"
     /\ ~last.ids.isNone
     /\ Len(last.ids.val) # Len(last.documents))
        => (last.err # "" /\ ~last.wrote)

\* C7: resolution returns the stored records of the distinct chunk ids of
\* the hits, each once, in the order of the first hit of each; ids the
\* Document Store does not hold are left out, without error.
HitIds(hits) == [i \in 1..Len(hits) |-> hits[i].metadata[chunk_id_key]]

FirstHit(cids, c) ==
    CHOOSE i \in 1..Len(cids) :
        cids[i] = c /\ \A j \in 1..Len(cids) : cids[j] = c => i <= j

C7_Resolution ==
    (last.op = "resolve" /\ AllCarry(last.hits, chunk_id_key)) =>
        LET cids == HitIds(last.hits)
            S == Range(cids) \cap DOMAIN docstore
        IN /\ last.err = ""
           /\ Len(last.docs) = Cardinality(S)
           /\ \A k \in 1..Len(last.docs) : \E c \in S :
                 /\ last.docs[k] = docstore[c]
                 /\ Cardinality({e \in S : FirstHit(cids, e) < FirstHit(cids, c)})
                        = k - 1

C7_Witness ==
    /\ last.op = "resolve"
    /\ AllCarry(last.hits, chunk_id_key)
    /\ Len(last.hits) = 3
    /\ last.hits[1] = last.hits[3]
    /\ last.hits[1] # last.hits[2]
    /\ Len(last.docs) = 1
    /\ HitIds(last.hits)[1] \in DOMAIN docstore

\* A completed add of one document, with a Chunk Transformer only, that
\* indexed children of it.
SingleDocAdd(call) ==
    /\ ~parent_transformer /\ chunk_transformer
    /\ call.op = "add" /\ call.err = ""
    /\ Len(call.documents) = 1
    /\ Len(call.kid_ids) = 1
    /\ call.kid_ids[1] # <<>>

\* the Vector Index items an add wrote for its j-th chunk
KidItems(call, j) == {vectorstore[v] : v \in Range(call.kid_ids[j])}

\* v is the record of the one document of `call`: the document as it was
\* passed, with the ids of all its children under child_ids_key
IsOriginal(v, call) ==
    LET d == call.documents[1] IN
    /\ v.kind = "doc"
    /\ v.doc.content = d.content
    /\ DOMAIN v.doc.metadata = DOMAIN d.metadata \cup {child_ids_key}
    /\ \A k \in DOMAIN d.metadata \ {child_ids_key} :
          v.doc.metadata[k] = d.metadata[k]
    /\ Split(v.doc.metadata[child_ids_key]) = call.kid_ids[1]

\* C8: with a Chunk Transformer only, after the add of a document split
\* into children, a search that hits any of those children returns one
\* record, the document, whose child_ids are the ids of all its children.
C8_RoundTrip ==
    /\ (last.op = "add" /\ SingleDocAdd(last)) =>
          \A hits \in SeqsUpTo(KidItems(last, 1), 1, MaxHits) :
             LET r == similarity_search(vectorstore, docstore, hits)
             IN r.err = "" /\ Len(r.docs) = 1 /\ IsOriginal(r.docs[1], last)
    /\ (/\ last.op = "search"
        /\ Before # <<>>
        /\ SingleDocAdd(Prior)
        /\ Range(last.hits) \subseteq KidItems(Prior, 1))
          => (last.err = "" /\ Len(last.docs) = 1
              /\ IsOriginal(last.docs[1], Prior))

C8_Witness ==
    /\ last.op = "search"
    /\ Before # <<>>
    /\ SingleDocAdd(Prior)
    /\ Len(Prior.kid_ids[1]) = 2
    /\ Len(last.hits) = 2
    /\ Range(last.hits) = KidItems(Prior, 1)
    /\ Len(last.docs) = 1
    /\ IsOriginal(last.docs[1], Prior)

\* the chunk ids an add gave, in order, to the chunks whose source id is s
IdsOfSource(call, s) ==
    LET J == {j \in Pairs(call) : SourceOf(call.chunks[j]) = s}
    IN [k \in 1..Cardinality(J) |->
           call.chunk_ids[CHOOSE j \in J :
                             Cardinality({i \in J : i < j}) = k - 1]]

AutoIdAdd ==
    /\ parent_transformer /\ ~chunk_transformer
    /\ last.op = "add" /\ last.err = ""
    /\ last.ids.isNone

C10_ItemsResolve ==
    (/\ chunk_transformer
     /\ last.err = ""
     /\ \A i \in 1..Len(log) :
           log[i].err = "" /\ Distinct(log[i].chunk_ids))
        => \A id \in DOMAIN vectorstore :
              /\ Has(vectorstore[id], chunk_id_key)
              /\ vectorstore[id].metadata[chunk_id_key] \in DOMAIN docstore
              /\ docstore[vectorstore[id].metadata[chunk_id_key]].kind = "doc"

\* every call made so far has completed
AllCompleted == last.err = "" /\ \A i \in 1..Len(log) : log[i].err = ""

\* C11: with a Parent Transformer, after completed adds and deletes every
\* chunk id listed in a parent->children mapping of the Document Store is
\* resolvable: an entry of the Vector Index without a Chunk Transformer, a
\* chunk record of the Document Store with one.
C11_MappingsResolvable ==
    (parent_transformer /\ AllCompleted) =>
        \A p \in DOMAIN docstore :
            docstore[p].kind = "ids" =>
                \A c \in Range(docstore[p].ids) :
                    IF chunk_transformer
                    THEN c \in DOMAIN docstore /\ docstore[c].kind = "doc"
                    ELSE c \in DOMAIN vectorstore

\* the delete that was just made removed children of an earlier add from
\* the Vector Index
ChildrenRemoved ==
    /\ last.op = "delete"
    /\ \E i \in 1..Len(Before), j \in 1..Len(last.calls) :
          KidsOf(Before[i]) \cap last.calls[j] # {}

\* C12: a delete that completes returns a boolean computed locally or the
\* Vector Index's own delete result, and with a Chunk Transformer it
\* returns a plain boolean; stated for the deletes that found child ids
\* and removed them from the Vector Index.
C12_DeleteReturnsBoolean ==
    (last.op = "delete" /\ last.err = "" /\ ChildrenRemoved) =>
        /\ last.ret \in {"True", "False", "VectorIndexResult"}
        /\ chunk_transformer => last.ret \in {"True", "False"}

\* the children an add indexed, as items of the Vector Index
AllKidItems(call) == {vectorstore[v] : v \in KidsOf(call) \cap DOMAIN vectorstore}

\* the call before the last one indexed children and was then interrupted
AfterInterruptedAdd ==
    /\ chunk_transformer
    /\ Before # <<>>
    /\ Prior.op = "add" /\ Prior.err = "Interrupted"
    /\ KidsOf(Prior) # {}

\* C13: with a Chunk Transformer, after an add that failed between its
\* Vector Index writes and its batch write of chunk records, a search whose
\* hits are only children written by that add returns no chunk record and
\* raises no error, whatever chunk ids the failed add used.
C13_OrphansUnreachable ==
    (/\ AfterInterruptedAdd
     /\ last.op = "search"
     /\ Range(last.hits) \subseteq AllKidItems(Prior))
        => (last.err = "" /\ last.docs = <<>>)

\* C14: with a Parent Transformer, delete with no ids or an empty ids list
\* fails with the validation error before any Document Store read or
\* delete and any Vector Index delete, and leaves both stores unchanged.
C14_DeleteWithoutIdsRejected ==
    (/\ parent_transformer
     /\ last.op = "delete"
     /\ (last.ids.isNone \/ last.ids.val = <<>>)) =>
        /\ last.err = "ValueError: ids must be set"
        /\ last.mgets = <<>>
        /\ last.calls = <<>>
        /\ ~last.wrote

C14_Witness ==
    /\ parent_transformer
    /\ last.op = "delete"
    /\ last.ids = Some(<<>>)
    /\ vectorstore # <<>>
    /\ docstore # <<>>
    /\ last.err = "ValueError: ids must be set"

\* C15: every item a completed add writes to the Vector Index carries the
\* id of its owning chunk under chunk_id_key, in all four modes.
C15_ItemsCarryChunkId ==
    (last.op = "add" /\ last.err = "") =>
        IF chunk_transformer
        THEN \A j \in 1..Len(last.kid_ids) :
                \A v \in Range(last.kid_ids[j]) :
                    /\ Has(vectorstore[v], chunk_id_key)
                    /\ vectorstore[v].metadata[chunk_id_key] = last.chunk_ids[j]
        ELSE \A j \in Pairs(last) :
                /\ last.chunk_ids[j] \in DOMAIN vectorstore
                /\ Has(vectorstore[last.chunk_ids[j]], chunk_id_key)
                /\ vectorstore[last.chunk_ids[j]].metadata[chunk_id_key]
                      = last.chunk_ids[j]

\* the parent ids step 1 derives for the documents of an add
DerivedIds(call) == DeriveIds(call.documents, call.ids).ids.val

\* C16: with a Parent Transformer, an add of documents that all carry the
\* source id completes and the Document Store holds a parent->children
\* mapping for every derived parent id, also for a document for which the
\* Parent Transformer produced no chunk.
C16_EveryParentMapped ==
    (/\ parent_transformer
     /\ last.op = "add"
     /\ last.documents # <<>>
     /\ DeriveIds(last.documents, last.ids).err = ""
     /\ last.err # "Interrupted")
        => /\ last.err = ""
           /\ \A p \in Range(DerivedIds(last)) :
                 /\ p \in DOMAIN docstore
                 /\ docstore[p].kind = "ids"

\* no add made before the last call indexed a child: a chunk record, where
\* there is one, has the empty join as its child_ids
NoChildrenStored ==
    \A i \in 1..Len(Before) :
        Before[i].op = "add" /\ Before[i].err = "" /\ KidsOf(Before[i]) = {}

\* C17: with a Chunk Transformer only, a delete that finds no children (no
\* chunk record under the ids, or records of chunks that had no children)
\* issues no delete to the Vector Index and returns false.
C17_NoChildrenNoDelete ==
    (/\ ~parent_transformer /\ chunk_transformer
     /\ last.op = "delete" /\ last.err = ""
     /\ NoChildrenStored)
        => (last.calls = <<>> /\ last.ret = "False")

\* add(D), add(D) again and delete of the parent ids they returned, with
\* the ids derived from the source id, were the three calls that wrote
ReAddThenDelete ==
    /\ parent_transformer
    /\ last.op = "delete" /\ last.err = ""
    /\ Len(Before) = 2
    /\ \A i \in 1..2 :
          /\ Before[i].op = "add" /\ Before[i].err = ""
          /\ Before[i].ids.isNone
    /\ Before[1].documents = Before[2].documents
    /\ last.ids = Some(Before[2].ret)

\* nothing an add wrote for its chunks is left in the stores
Unreachable(call) ==
    IF chunk_transformer
    THEN /\ KidsOf(call) \cap DOMAIN vectorstore = {}
         /\ \A c \in Range(call.chunk_ids) :
               c \in DOMAIN docstore => docstore[c].kind # "doc"
    ELSE Range(call.chunk_ids) \cap DOMAIN vectorstore = {}

\* C19: with a Parent Transformer and derived ids, after add(D), add(D)
\* again and delete of the returned parent ids, the Vector Index holds no
\* item and the Document Store no chunk record written by either add.
C19_ReAddLeavesNothing ==
    ReAddThenDelete => (Unreachable(Before[1]) /\ Unreachable(Before[2]))

\* the chunk ids of the units that delete(ids) names, in the stores as they
\* are before the call: the ids themselves, or with a Parent Transformer
\* the chunk ids the mappings of the named parents list
NamedChunkIds(ids) ==
    IF ids.isNone THEN {}
    ELSE IF parent_transformer
    THEN UNION {Range(docstore[p].ids) :
                   p \in {q \in Range(ids.val) \cap DOMAIN docstore :
                             docstore[q].kind = "ids"}}
    ELSE Range(ids.val)

\* the Vector Index item under k belongs to a unit that delete(ids) names
ItemOfNamed(k, ids) ==
    IF chunk_transformer
    THEN /\ Has(vectorstore[k], chunk_id_key)
         /\ vectorstore[k].metadata[chunk_id_key] \in NamedChunkIds(ids)
    ELSE k \in NamedChunkIds(ids)

\* the Document Store entry under k belongs to a unit that delete(ids) names
EntryOfNamed(k, ids) ==
    \/ k \in NamedChunkIds(ids)
    \/ ~ids.isNone /\ k \in Range(ids.val)

DeleteFrame(ids) ==
    /\ DOMAIN vectorstore' \subseteq DOMAIN vectorstore
    /\ DOMAIN docstore' \subseteq DOMAIN docstore
    /\ \A k \in DOMAIN vectorstore :
          ~ItemOfNamed(k, ids) =>
              k \in DOMAIN vectorstore' /\ vectorstore'[k] = vectorstore[k]
    /\ \A k \in DOMAIN docstore :
          ~EntryOfNamed(k, ids) =>
              k \in DOMAIN docstore' /\ docstore'[k] = docstore[k]

\* C20: in every mode delete(ids) leaves unchanged every Vector Index item,
\* chunk record and parent->children mapping of the units that ids does
\* not name and that share no chunk id or child id with a named unit.
C20_DeleteFrame == [][last'.op = "delete" => DeleteFrame(last'.ids)]_vars

\* a delete removed the children of one chunk and left the record and the
\* children of another chunk in place
C20_Witness ==
    /\ chunk_transformer
    /\ ChildrenRemoved
    /\ last.err = ""
    /\ \E c \in DOMAIN docstore :
          /\ docstore[c].kind = "doc"
          /\ c \notin Range(last.ids.val)
          /\ c \notin NamedChunkIds(last.ids)
          /\ \E k \in DOMAIN vectorstore :
                vectorstore[k].metadata[chunk_id_key] = c

\* the position of a round-trip in the order in which they were made
Pos(step) == CHOOSE i \in 1..Len(log) : log[i] = step

BothDone ==
    last.op = "conc" /\ last.add.pc = "done" /\ last.del.pc = "done"

\* the delete read the chunk records before the add wrote them, and
\* removed them after
ReadBeforeSaveBeforeRemove ==
    /\ Pos("delete.mget") < Pos("add.mset")
    /\ Pos("add.mset") < Pos("delete.mdelete")

\* the children the add indexed for the chunks it stored under id c
ConcKidsOf(c) ==
    UNION {Range(last.add.kid_ids[j]) :
              j \in {i \in 1..Len(last.add.ids) : last.add.ids[i] = c}}

\* the Vector Index holds children of the add under a chunk id that has no
\* chunk record
OrphansOf(c) ==
    /\ c \notin DOMAIN docstore
    /\ ConcKidsOf(c) # {}
    /\ \A k \in ConcKidsOf(c) :
          /\ k \in DOMAIN vectorstore
          /\ vectorstore[k].metadata[chunk_id_key] = c

\* C18: with a Chunk Transformer, when an add and a delete of the same
\* chunk id interleave their round-trips so that the delete reads the
\* records before the add's mset and removes them after it, both calls
\* complete and the children the add indexed under that id are in the
\* Vector Index without a chunk record; nothing excludes that order.
C18_RaceLeavesOrphans ==
    (/\ BothDone
     /\ ReadBeforeSaveBeforeRemove
     /\ ConcKidsOf(Str("X")) # {})
        => OrphansOf(Str("X"))

C18_Witness ==
    /\ BothDone
    /\ ReadBeforeSaveBeforeRemove
    /\ OrphansOf(Str("X"))
    /\ last.add.ret = last.add.ids
    /\ last.del.ret \in {"False", "None"}

\* no add made before the last call returned x, gave x to a chunk or
\* indexed a child under x
NeverAdded(x) ==
    \A i \in 1..Len(Before) :
        Before[i].op = "add" =>
            /\ x \notin Range(Before[i].ret)
            /\ x \notin Range(Before[i].chunk_ids)
            /\ x \notin KidsOf(Before[i])

\* C21: in every mode a delete whose non-empty ids contain an id that was
\* never added completes without raising an error.
C21_UnknownIdTolerated ==
    (/\ last.op = "delete"
     /\ ~last.ids.isNone
     /\ \E x \in Range(last.ids.val) : NeverAdded(x))
        => last.err = ""
====
